---------------------------- MODULE Spec2Model ----------------------------
(***************************************************************************)
(* Model of the vector indexing and retrieval subsystem of CodePal:        *)
(* CodeVectorStore and CodeProcessor (vector_store.py), FileSearchTool     *)
(* (tools.py) and CodePalManager (agent.py).                               *)
(*                                                                         *)
(* Python values are represented as follows.                               *)
(*   - a str that matters only up to surrounding whitespace is a sequence  *)
(*     of pieces, a piece being either a whitespace character or a run of  *)
(*     non-whitespace characters;                                          *)
(*   - a chunk's page_content is a text identifier in Texts;               *)
(*   - a float32 vector is a sequence of integers (fixed point with       *)
(*     FloatScale steps per unit where the code divides);                  *)
(*   - an optional object is a record with an is_none flag;                *)
(*   - a file of the persistence directory is a record with a state       *)
(*     ("absent", "torn" or "ok") and its content.                         *)
(***************************************************************************)
EXTENDS Integers, Sequences, FiniteSets, TLC

\* ------------------------------------------------------------------ bounds

\* Number of distinct chunk texts (and queries).
MaxText == 2
\* Most state-changing calls (construction, add_documents,
\* create_embeddings, save, load) made in one run of Spec.
MaxCalls == 5
\* The same, in one run of SpecSearch.
MaxSearchCalls == 3
\* The same, in one run of SpecReload.
MaxReloadCalls == 4
\* Most initialize_repository calls in one run of SpecManager.
MaxInits == 2
\* Most initialize_repository calls in one run of SpecRebuild.
MaxRebuilds == 2
\* Most initialize_repository calls in one run of SpecConcurrent.
MaxConcurrentInits == 2
\* Dimension of the smaller SentenceTransformer model of the model
\* (the other one is one larger).
NetDimBase == 2
\* Most provider objects resolved in one run of SpecProvider or SpecEncode.
MaxProviders == 2
\* Longest list of texts passed to one encode call.
MaxBatch == 2
\* Number of calls on stores saved one after the other.
MaxResaveCalls == 6
\* Number of calls of initialize_repository by the two sessions.
MaxSessionInits == 3
\* Number of calls of initialize_repository without a network.
MaxFailingInits == 2
\* Number of files created under the repository root.
MaxFiles == 3

\* --------------------------------------------------------- program constants

\* FallbackEmbeddingModel.dimension
FallbackDimension == 128
\* similarity_search's default k, and the k FileSearchTool passes
DefaultK == 5
ToolK == 5
\* _initialize_embedding_model: max_retries
max_retries == 3
\* len(hashlib.md5(...).hexdigest())
Md5HexLen == 32
\* fixed-point steps per unit of the normalised float32 components
FloatScale == 1000

Texts == 1..MaxText

\* ------------------------------------------------------------------ strings

WS == {" ", "\n"}

RECURSIVE LStrip(_)
LStrip(s) ==
    IF s # <<>> /\ Head(s) \in WS THEN LStrip(Tail(s)) ELSE s

RECURSIVE RStrip(_)
RStrip(s) ==
    IF s # <<>> /\ s[Len(s)] \in WS THEN RStrip(SubSeq(s, 1, Len(s) - 1)) ELSE s

\* str.strip()
Strip(s) == RStrip(LStrip(s))

\* Config.EMBEDDING_MODEL's default, and the hard-coded name of attempts 2+
DefaultModelName == <<"paraphrase-MiniLM-L3-v2">>
FallbackModelName == <<"paraphrase-MiniLM-L3-v2">>
OtherModelName == <<"all-mpnet-base-v2">>

\* Values of the EMBEDDING_MODEL environment variable considered.
ConfigNames ==
    { DefaultModelName, OtherModelName, OtherModelName \o <<"\n">> }

\* Names a SentenceTransformer can be loaded under when the network is up.
HubModels == { FallbackModelName, OtherModelName }

ModelDim(name) ==
    IF name = FallbackModelName THEN NetDimBase ELSE NetDimBase + 1

\* ----------------------------------------------------------------- documents

\* langchain Document of chunk text t, as process_file builds it.
Doc(t) ==
    [page_content |-> t,
     metadata |-> [file_path |-> t, file_name |-> t, file_extension |-> ".py",
                   chunk_index |-> 0, total_chunks |-> 1]]


\* Python's list[idx] for idx in -len..len-1, on a 1-based sequence.
PyIndexOk(list, idx) == idx < Len(list) /\ idx >= -Len(list)
PyIndex(list, idx) == IF idx >= 0 THEN list[idx + 1] ELSE list[Len(list) + idx + 1]

\* ---------------------------------------------------------------- embeddings

\* hashlib.md5(text.encode()).hexdigest(): Md5HexLen hexadecimal digits, a
\* fixed function of the text (the digest itself is a stand-in that keeps
\* distinct texts apart).
Md5HexDigest(t) == [i \in 1..Md5HexLen |-> (t * 7 + i * i * t + i * 3) % 16]

\* ord(c) of the hexadecimal digit c of a hexdigest ('0'..'9', 'a'..'f')
Ord(h) == IF h < 10 THEN 48 + h ELSE 87 + h

RECURSIVE SumSq(_)
SumSq(v) == IF v = <<>> THEN 0 ELSE Head(v) * Head(v) + SumSq(Tail(v))

\* floor of the square root
ISqrt(n) == CHOOSE r \in 0..n : r * r <= n /\ (r + 1) * (r + 1) > n

\* np.linalg.norm(embedding)
Norm(v) == ISqrt(SumSq(v))

\* FallbackEmbeddingModel.encode, one text: text_hash[:dimension] keeps at
\* most `dimension` of the digest's characters.
FallbackEncodeOne(dimension, t) ==
    LET kept == IF Md5HexLen <= dimension THEN Md5HexLen ELSE dimension
        embedding == [i \in 1..kept |-> Ord(Md5HexDigest(t)[i])]
    IN  IF Norm(embedding) > 0
        THEN [i \in 1..Len(embedding) |-> (embedding[i] * FloatScale) \div Norm(embedding)]
        ELSE embedding

FallbackTable == [t \in Texts |-> FallbackEncodeOne(FallbackDimension, t)]

\* SentenceTransformer(name).encode, one text: a fixed vector of the model's
\* dimension per text (the library is outside the repository).
NetEncodeOne(name, t) ==
    [j \in 1..ModelDim(name) |-> (t * t * j + ModelDim(name)) % 7]

\* The provider objects _initialize_embedding_model can return.
SentenceTransformer(name) == [kind |-> "SentenceTransformer", name |-> name, dimension |-> 0]
FallbackEmbeddingModel == [kind |-> "FallbackEmbeddingModel", name |-> <<>>, dimension |-> FallbackDimension]

EncodeOne(model, t) ==
    IF model.kind = "FallbackEmbeddingModel"
    THEN FallbackTable[t]
    ELSE NetEncodeOne(model.name, t)

\* Mutant of Encode: the rows come out in reverse order.
EncodeReversed(model, texts) ==
    [i \in 1..Len(texts) |-> EncodeOne(model, texts[Len(texts) + 1 - i])]

\* embedding_model.encode(texts): one row per text, in order
Encode(model, texts) == [i \in 1..Len(texts) |-> EncodeOne(model, texts[i])]

\* --------------------------------------------------- provider resolution

\* SentenceTransformer(model_name, ...) succeeds when the name is on the hub
\* and the network answers this attempt.
LoadSucceeds(model_name, up) == up /\ model_name \in HubModels

\* Network availability per attempt: the environment's input.
NetPatterns == [0..(max_retries - 1) -> BOOLEAN]

\* The network down for a while and then up: down for the first n attempts.
NetCases == { [a \in 0..(max_retries - 1) |-> a >= n] : n \in 0..max_retries }

AttemptName(embedding_model_name, attempt) ==
    IF attempt = 0 THEN embedding_model_name ELSE FallbackModelName

RECURSIVE InitializeFrom(_, _, _)
InitializeFrom(embedding_model_name, net, attempt) ==
    IF LoadSucceeds(AttemptName(embedding_model_name, attempt), net[attempt])
    THEN SentenceTransformer(AttemptName(embedding_model_name, attempt))
    ELSE IF attempt < max_retries - 1
         THEN InitializeFrom(embedding_model_name, net, attempt + 1)
         ELSE FallbackEmbeddingModel

\* CodeVectorStore._initialize_embedding_model
InitializeEmbeddingModel(embedding_model_name, net) ==
    InitializeFrom(embedding_model_name, net, 0)

\* --------------------------------------------------------------- FAISS

\* faiss.IndexFlatL2(d) after add(xb); Python's None is is_none.
NoIndex == [is_none |-> TRUE, d |-> 0, xb |-> <<>>]
IndexFlatL2(d, xb) == [is_none |-> FALSE, d |-> d, xb |-> xb]
ntotal(index) == Len(index.xb)

RECURSIVE L2SqUpTo(_, _, _)
L2SqUpTo(a, b, n) ==
    IF n = 0 THEN 0
    ELSE (a[n] - b[n]) * (a[n] - b[n]) + L2SqUpTo(a, b, n - 1)

\* The squared L2 distance IndexFlatL2 reports, of vectors of one dimension.
L2Sq(a, b) == L2SqUpTo(a, b, Len(a))

\* The orders in which a flat index may rank its vectors for query x:
\* every vector once, by non-decreasing distance (ties in any order).
Rankings(index, x) ==
    LET D == [i \in 1..ntotal(index) |-> L2Sq(index.xb[i], x)]
    IN  { p \in [1..ntotal(index) -> 0..(ntotal(index) - 1)] :
            /\ \A i, j \in 1..ntotal(index) : i # j => p[i] # p[j]
            /\ \A i \in 1..(ntotal(index) - 1) : D[p[i] + 1] <= D[p[i + 1] + 1] }

\* index.search(x, k) for one query row: the labels I[0], k of them, the
\* missing neighbours reported as -1.
FaissSearchLabels(index, x, k) ==
    { [i \in 1..k |-> IF i <= ntotal(index) THEN p[i] ELSE -1] :
        p \in Rankings(index, x) }

\* The Python wrapper asserts the query's dimension against the index's.
FaissSearchRaises(index, x) == Len(x) # index.d

\* ------------------------------------------------------------ DocumentStore

NewDocumentStore == [dict |-> [key \in {} |-> Doc(1)], counter |-> 0]

\* DocumentStore.add_document
AddDocument(docstore, document) ==
    [dict |-> [key \in DOMAIN docstore.dict \cup {docstore.counter} |->
                 IF key = docstore.counter THEN document ELSE docstore.dict[key]],
     counter |-> docstore.counter + 1]

RECURSIVE AddAll(_, _)
AddAll(docstore, documents) ==
    IF documents = <<>> THEN docstore
    ELSE AddAll(AddDocument(docstore, Head(documents)), Tail(documents))

\* ---------------------------------------------------------- CodeVectorStore

\* self.embeddings, the array encode returned, kept as its shape.
NoEmbeddings == [is_none |-> TRUE, shape |-> <<0, 0>>]

\* CodeVectorStore.__init__
NewStore(embedding_model_name, net) ==
    [embedding_model_name |-> embedding_model_name,
     embedding_model |-> InitializeEmbeddingModel(embedding_model_name, net),
     documents |-> <<>>,
     embeddings |-> NoEmbeddings,
     faiss_index |-> NoIndex,
     docstore |-> NewDocumentStore]

\* CodeVectorStore.add_documents
AddDocuments(st, documents) ==
    [st EXCEPT !.documents = @ \o documents]

PageContents(documents) == [i \in 1..Len(documents) |-> documents[i].page_content]

\* CodeVectorStore.create_embeddings
CreateEmbeddings(st) ==
    IF st.documents = <<>> THEN st
    ELSE LET texts == PageContents(st.documents)
             embeddings == Encode(st.embedding_model, texts)
             dimension == Len(embeddings[1])
         IN  [st EXCEPT !.faiss_index = IndexFlatL2(dimension, embeddings),
                        !.embeddings = [is_none |-> FALSE,
                                        shape |-> <<Len(embeddings), dimension>>],
                        !.docstore = AddAll(@, st.documents)]

\* The loop of similarity_search and of FileSearchTool._run over I[0]:
\* documents[idx] for every label below len(documents); a label of -1
\* passes the test and indexes from the end of the list.
RECURSIVE Collect(_, _)
Collect(documents, labels) ==
    IF labels = <<>> THEN [raised |-> FALSE, docs |-> <<>>]
    ELSE LET idx == Head(labels)
             rest == Collect(documents, Tail(labels))
         IN  IF idx < Len(documents)
             THEN IF ~PyIndexOk(documents, idx) \/ rest.raised
                  THEN [raised |-> TRUE, docs |-> <<>>]
                  ELSE [raised |-> FALSE, docs |-> <<PyIndex(documents, idx)>> \o rest.docs]
             ELSE rest

\* Mutant of SearchIndex: the query is cut or zero-padded to the index's
\* dimension before the search.
SearchIndexCoerced(st, query, k) ==
    LET q == EncodeOne(st.embedding_model, query)
        query_embedding == [j \in 1..st.faiss_index.d |-> IF j <= Len(q) THEN q[j] ELSE 0]
    IN  { Collect(st.documents, I) :
            I \in FaissSearchLabels(st.faiss_index, query_embedding, k) }

\* similarity_search past its test of faiss_index: encode, search, collect.
SearchIndex(st, query, k) ==
    LET query_embedding == EncodeOne(st.embedding_model, query)
    IN  IF FaissSearchRaises(st.faiss_index, query_embedding)
        THEN { [raised |-> TRUE, docs |-> <<>>] }
        ELSE { Collect(st.documents, I) :
                 I \in FaissSearchLabels(st.faiss_index, query_embedding, k) }

\* Mutant of SimilaritySearch: faiss_index is used without the test for None.
SimilaritySearchWithoutNoneTest(st, query, k) == SearchIndex(st, query, k)

\* CodeVectorStore.similarity_search: the results it can produce
SimilaritySearch(st, query, k) ==
    IF st.faiss_index.is_none THEN { [raised |-> FALSE, docs |-> <<>>] }
    ELSE SearchIndex(st, query, k)

\* ------------------------------------------------- the persistence directory

\* A path that does not exist.
NoDirectory ==
    [exists |-> FALSE,
     faiss_index_bin |-> [state |-> "absent", index |-> NoIndex],
     documents_pkl |-> [state |-> "absent", documents |-> <<>>],
     model_info_txt |-> [state |-> "absent", text |-> <<>>]]

\* Where a save stops: an I/O failure (or the process's end) in makedirs, in
\* one of the three writes, or nowhere.
CrashPoints == {"makedirs", "faiss_index.bin", "documents.pkl", "model_info.txt", "none"}

\* A write that fails leaves its file as it was (the open failed) or torn
\* (opened for writing, so truncated, and not completed).
FailedWrite(file, torn) == IF torn THEN [file EXCEPT !.state = "torn"] ELSE file

\* CodeVectorStore.save, stopping at `crash`: the directory afterwards
\* and whether the call raised.
Save(st, dir, crash, torn) ==
    IF crash = "makedirs" THEN [dir |-> dir, ret |-> "raise"]
    ELSE LET d0 == [dir EXCEPT !.exists = TRUE]
             d1 == IF st.faiss_index.is_none THEN d0
                   ELSE IF crash = "faiss_index.bin"
                        THEN [d0 EXCEPT !.faiss_index_bin = FailedWrite(@, torn)]
                        ELSE [d0 EXCEPT !.faiss_index_bin =
                                 [state |-> "ok", index |-> st.faiss_index]]
             d2 == IF crash = "documents.pkl"
                   THEN [d1 EXCEPT !.documents_pkl = FailedWrite(@, torn)]
                   ELSE [d1 EXCEPT !.documents_pkl =
                            [state |-> "ok", documents |-> st.documents]]
             d3 == IF crash = "model_info.txt"
                   THEN [d2 EXCEPT !.model_info_txt =
                            IF torn THEN [state |-> "ok", text |-> <<>>] ELSE @]
                   ELSE [d2 EXCEPT !.model_info_txt =
                            [state |-> "ok", text |-> st.embedding_model_name]]
         IN  IF crash = "faiss_index.bin" THEN [dir |-> d1, ret |-> "raise"]
             ELSE IF crash = "documents.pkl" THEN [dir |-> d2, ret |-> "raise"]
             ELSE IF crash = "model_info.txt" THEN [dir |-> d3, ret |-> "raise"]
             ELSE [dir |-> d3, ret |-> "ok"]

\* A save can stop in the index write only if it writes the index.
CanCrashAt(st, crash) == crash = "faiss_index.bin" => ~st.faiss_index.is_none

\* CodeVectorStore.load past its test of the path: the three files, each
\* read if it is there, then the document store rebuilt.
LoadExisting(st, dir, net) ==
    IF dir.faiss_index_bin.state = "torn" THEN [store |-> st, ret |-> "raise"]
    ELSE LET s1 == IF dir.faiss_index_bin.state = "ok"
                   THEN [st EXCEPT !.faiss_index = dir.faiss_index_bin.index]
                   ELSE st
         IN  IF dir.documents_pkl.state = "torn" THEN [store |-> s1, ret |-> "raise"]
             ELSE LET s2 == IF dir.documents_pkl.state = "ok"
                            THEN [s1 EXCEPT !.documents = dir.documents_pkl.documents]
                            ELSE s1
                      s3 == IF dir.model_info_txt.state = "ok"
                            THEN [s2 EXCEPT
                                    !.embedding_model_name = Strip(dir.model_info_txt.text),
                                    !.embedding_model =
                                        InitializeEmbeddingModel(
                                            Strip(dir.model_info_txt.text), net)]
                            ELSE s2
                  IN  [store |-> [s3 EXCEPT !.docstore = AddAll(NewDocumentStore, s3.documents)],
                       ret |-> "True"]

\* Mutant of Load: the test of the path is dropped.
LoadWithoutPathTest(st, dir, net) == LoadExisting(st, dir, net)

\* Mutant of Load: the index file is not read back.
LoadWithoutIndex(st, dir, net) ==
    IF ~dir.exists THEN [store |-> st, ret |-> "False"]
    ELSE LoadExisting(st, [dir EXCEPT !.faiss_index_bin =
                               [state |-> "absent", index |-> NoIndex]], net)

\* CodeVectorStore.load: the store afterwards and what the call returned
\* ("True", "False") or that it raised.
Load(st, dir, net) ==
    IF ~dir.exists THEN [store |-> st, ret |-> "False"]
    ELSE LoadExisting(st, dir, net)

\* ------------------------------------------------------------ FileSearchTool

NoRelevantFiles == "No relevant files found for the query."
NotInitialized == "Vector store not properly initialized."
SearchError == "Error during file search"
SearchResults == "results"

\* FileSearchTool._run for a tool built over store st with st's provider
\* (CodePalAgent._initialize_tools): the answers it can give.  hasattr is
\* true of every CodeVectorStore, so a store without an index reaches
\* faiss_index.search on None.
FileSearchRun(st, embedding_model, query) ==
    LET query_embedding == EncodeOne(embedding_model, query)
    IN  IF st.faiss_index.is_none
        THEN { [msg |-> SearchError, docs |-> <<>>] }
        ELSE IF FaissSearchRaises(st.faiss_index, query_embedding)
        THEN { [msg |-> SearchError, docs |-> <<>>] }
        ELSE { LET results == Collect(st.documents, I)
               IN  IF results.raised THEN [msg |-> SearchError, docs |-> <<>>]
                   ELSE IF results.docs # <<>>
                        THEN [msg |-> SearchResults, docs |-> results.docs]
                        ELSE [msg |-> NoRelevantFiles, docs |-> <<>>] :
               I \in FaissSearchLabels(st.faiss_index, query_embedding, ToolK) }

\* ------------------------------------------------------------ CodePalManager

\* A reference to a CodeVectorStore object: its identity and its state.
\* The store of a reference is no longer changed once the manager's call
\* that made it has returned.
NoStore ==
    [is_none |-> TRUE, oid |-> 0,
     obj |-> NewStore(DefaultModelName, [a \in 0..(max_retries - 1) |-> FALSE])]
StoreRef(oid, st) == [is_none |-> FALSE, oid |-> oid, obj |-> st]

\* CodePalAgent(vector_store), when its construction succeeds (it raises
\* when the configured LLM provider cannot be set up)
NoAgent == [is_none |-> TRUE, vector_store |-> NoStore, tools |-> <<>>]
CodePalAgent(ref) ==
    [is_none |-> FALSE, vector_store |-> ref,
     tools |-> <<"file_search_tool", "file_reader_tool", "ast_parser_tool",
                 "directory_lister_tool">>]

\* CodePalManager.__init__
NewManager == [vector_store |-> NoStore, agent |-> NoAgent, processor |-> FALSE]

\* The repositories a caller may name, and the documents
\* CodeProcessor.process_repository returns for each.
Repos == {"repo_a", "repo_b", "empty_repo"}
ProcessRepository(repo) ==
    CASE repo = "repo_a" -> <<Doc(1)>>
      [] repo = "repo_b" -> <<Doc(1), Doc(2)>>
      [] OTHER -> <<>>

LoadedMessage == "Loaded existing vector store for repository"
NoFilesMessage == "No supported files found in repository"
SuccessMessage == "Successfully processed documents from repository"
ErrorMessage == "Error initializing repository"

\* Where the rebuild can stop before its save: process_repository raising
\* (the walk of the repository fails) and create_embeddings raising (encode
\* fails).  A file that cannot be read or chunked is skipped by
\* process_file and stops nothing.
BuildFailPoints == {"scan", "embed"}

\* Every point an initialize_repository can stop at.
FailPoints == BuildFailPoints \cup CrashPoints

\* initialize_repository from "# Process repository" on: scan, build, save,
\* new agent.  m is the manager as the first part left it.
Rebuild(m, dir, name, repo, net, crash, torn, agent_ok, oid) ==
    LET m1 == [m EXCEPT !.processor = TRUE]
        documents == ProcessRepository(repo)
        built == CreateEmbeddings(AddDocuments(NewStore(name, net), documents))
        m2 == [m1 EXCEPT !.vector_store = StoreRef(oid, built)]
        saved == Save(built, dir, crash, torn)
        unbuilt == AddDocuments(NewStore(name, net), documents)
    IN  IF crash = "scan"
        THEN [mgr |-> m1, dir |-> dir, ret |-> ErrorMessage]
        ELSE IF documents = <<>>
        THEN [mgr |-> m1, dir |-> dir, ret |-> NoFilesMessage]
        ELSE IF crash = "embed"
        THEN [mgr |-> [m1 EXCEPT !.vector_store = StoreRef(oid, unbuilt)],
              dir |-> dir, ret |-> ErrorMessage]
        ELSE IF saved.ret = "raise"
        THEN [mgr |-> m2, dir |-> saved.dir, ret |-> ErrorMessage]
        ELSE IF ~agent_ok
        THEN [mgr |-> m2, dir |-> saved.dir, ret |-> ErrorMessage]
        ELSE [mgr |-> [m2 EXCEPT !.agent = CodePalAgent(StoreRef(oid, built))],
              dir |-> saved.dir, ret |-> SuccessMessage]

\* Mutant of InitializeRepository: a rebuild starts by removing the
\* directory.
InitializeRepositoryClearing(m, dir, name, repo, force, net1, net2, crash, torn, agent_ok, oid) ==
    IF ~force /\ dir.exists
    THEN LET loaded == Load(NewStore(name, net1), dir, net2)
             m1 == [m EXCEPT !.vector_store = StoreRef(oid, loaded.store)]
         IN  IF loaded.ret = "raise"
             THEN [mgr |-> m1, dir |-> dir, ret |-> ErrorMessage]
             ELSE IF ~agent_ok
             THEN [mgr |-> m1, dir |-> dir, ret |-> ErrorMessage]
             ELSE [mgr |-> [m1 EXCEPT !.agent = CodePalAgent(StoreRef(oid, loaded.store))],
                   dir |-> dir, ret |-> LoadedMessage]
    ELSE Rebuild(m, NoDirectory, name, repo, net1, crash, torn, agent_ok, oid + 1)

\* initialize_repository without its except clause: what it catches
\* reaches the caller.
InitializeRepositoryUncaught(m, dir, name, repo, force, net1, net2, crash, torn, agent_ok, oid) ==
    LET r == IF ~force /\ dir.exists
             THEN LET loaded == Load(NewStore(name, net1), dir, net2)
                      m1 == [m EXCEPT !.vector_store = StoreRef(oid, loaded.store)]
                  IN  IF loaded.ret = "raise"
                      THEN [mgr |-> m1, dir |-> dir, ret |-> ErrorMessage]
                      ELSE IF loaded.ret = "True"
                      THEN IF ~agent_ok
                           THEN [mgr |-> m1, dir |-> dir, ret |-> ErrorMessage]
                           ELSE [mgr |-> [m1 EXCEPT !.agent =
                                              CodePalAgent(StoreRef(oid, loaded.store))],
                                 dir |-> dir, ret |-> LoadedMessage]
                      ELSE Rebuild(m1, dir, name, repo, net1, crash, torn, agent_ok, oid + 1)
             ELSE Rebuild(m, dir, name, repo, net1, crash, torn, agent_ok, oid + 1)
    IN  IF r.ret = ErrorMessage THEN [r EXCEPT !.ret = "raise"] ELSE r

\* CodePalManager.initialize_repository: the manager and the directory
\* afterwards and the string returned.  net1 is the network met by the
\* first CodeVectorStore() of the call, net2 by the load's re-resolution.
InitializeRepository(m, dir, name, repo, force, net1, net2, crash, torn, agent_ok, oid) ==
    IF ~force /\ dir.exists
    THEN LET loaded == Load(NewStore(name, net1), dir, net2)
             m1 == [m EXCEPT !.vector_store = StoreRef(oid, loaded.store)]
         IN  IF loaded.ret = "raise"
             THEN [mgr |-> m1, dir |-> dir, ret |-> ErrorMessage]
             ELSE IF loaded.ret = "True"
             THEN IF ~agent_ok
                  THEN [mgr |-> m1, dir |-> dir, ret |-> ErrorMessage]
                  ELSE [mgr |-> [m1 EXCEPT !.agent = CodePalAgent(StoreRef(oid, loaded.store))],
                        dir |-> dir, ret |-> LoadedMessage]
             ELSE Rebuild(m1, dir, name, repo, net1, crash, torn, agent_ok, oid + 1)
    ELSE Rebuild(m, dir, name, repo, net1, crash, torn, agent_ok, oid + 1)

\* ------------------------------------------- provider resolution, by steps

\* retry_delay = 5
InitialRetryDelay == 5

\* No call of _initialize_embedding_model was made yet.
NoResolution ==
    [pc |-> "idle", embedding_model_name |-> <<>>, attempt |-> 0,
     retry_delay |-> InitialRetryDelay, tried |-> <<>>, failed |-> 0, slept |-> <<>>,
     ret |-> [is_none |-> TRUE, model |-> FallbackEmbeddingModel]]

\* _initialize_embedding_model entered: the loop's first iteration is next.
EnterResolution(embedding_model_name) ==
    [NoResolution EXCEPT !.pc = "attempt",
                         !.embedding_model_name = embedding_model_name]

\* The tier of an attempt: the configured model on the first iteration, the
\* hard-coded smaller model on the others.
AttemptTier(attempt) == IF attempt = 0 THEN "primary" ELSE "fallback_model"

\* Mutant of AfterAttempt: the last attempt's exception is not handled.
AfterAttemptReraise(r, up) ==
    LET model_name == AttemptName(r.embedding_model_name, r.attempt)
        r1 == [r EXCEPT !.tried = Append(@, [tier |-> AttemptTier(r.attempt),
                                             model_name |-> model_name])]
    IN  IF LoadSucceeds(model_name, up)
        THEN [r1 EXCEPT !.pc = "returned",
                        !.ret = [is_none |-> FALSE, model |-> SentenceTransformer(model_name)]]
        ELSE IF r.attempt < max_retries - 1
             THEN [r1 EXCEPT !.pc = "sleep", !.failed = @ + 1]
             ELSE [r1 EXCEPT !.pc = "raised", !.failed = @ + 1]

\* One iteration of the loop up to its return or its sleep: the model name
\* is chosen, SentenceTransformer(...) is called, and it returns (up and a
\* loadable name) or raises into the except clause.
AfterAttempt(r, up) ==
    LET model_name == AttemptName(r.embedding_model_name, r.attempt)
        r1 == [r EXCEPT !.tried = Append(@, [tier |-> AttemptTier(r.attempt),
                                             model_name |-> model_name])]
    IN  IF LoadSucceeds(model_name, up)
        THEN [r1 EXCEPT !.pc = "returned",
                        !.ret = [is_none |-> FALSE, model |-> SentenceTransformer(model_name)]]
        ELSE IF r.attempt < max_retries - 1
             THEN [r1 EXCEPT !.pc = "sleep", !.failed = @ + 1]
             ELSE [r1 EXCEPT !.pc = "returned", !.failed = @ + 1,
                             !.ret = [is_none |-> FALSE, model |-> FallbackEmbeddingModel]]

\* time.sleep(retry_delay); retry_delay *= 2; the next iteration
AfterSleep(r) ==
    [r EXCEPT !.pc = "attempt", !.attempt = @ + 1,
              !.slept = Append(@, r.retry_delay), !.retry_delay = 2 * @]

\* The manager's store and agent, as a reader finds them.
ManagerPair(m) == [vector_store |-> m.vector_store, agent |-> m.agent]

\* No call of initialize_repository is in progress.
NoInflight ==
    [pc |-> "idle", repo |-> "", force |-> FALSE, documents |-> <<>>,
     old |-> ManagerPair(NewManager), oid |-> 0, ret |-> ""]

\* ----------------------------------------------------------------- scanner

\* A path is the sequence of its parts (pathlib's Path.parts) and a part is
\* a sequence of pieces, a piece being either "." or a run of other
\* characters: a.py is <<"a", ".", "py">> and .git is <<".", "git">>.

\* Config.SUPPORTED_EXTENSIONS
SUPPORTED_EXTENSIONS ==
    { <<".", x>> : x \in
        {"py", "js", "ts", "java", "cpp", "c", "h", "hpp", "cs", "php", "rb",
         "go", "rs", "swift", "kt", "scala", "r", "m", "mm", "sh", "bash",
         "zsh", "sql", "html", "css", "scss", "sass", "xml", "json", "yaml",
         "yml", "toml", "ini", "cfg", "md", "txt", "rst", "tex"} }

\* Config.MAX_FILE_SIZE
MAX_FILE_SIZE == 1024 * 1024

\* ignore_dirs of _should_process_file
ignore_dirs ==
    { <<".", "git">>, <<"__pycache__">>, <<"node_modules">>, <<".", "venv">>,
      <<"venv">>, <<"env">> }

\* str.rfind('.') on a part: the position of its last "." piece, 0 for none.
RECURSIVE RFindDot(_, _)
RFindDot(part, i) ==
    IF i = 0 THEN 0
    ELSE IF part[i] = "." THEN i ELSE RFindDot(part, i - 1)

\* Path.name and Path.suffix
PathName(parts) == IF parts = <<>> THEN <<>> ELSE parts[Len(parts)]
PathSuffix(parts) ==
    LET name == PathName(parts)
        i == RFindDot(name, Len(name))
    IN  IF 1 < i /\ i < Len(name) THEN SubSeq(name, i, Len(name)) ELSE <<>>

\* part.startswith('.')
StartsWithDot(part) == part # <<>> /\ Head(part) = "."

\* CodeProcessor._should_process_file
should_process_file(file_path) ==
    IF PathSuffix(file_path) \notin SUPPORTED_EXTENSIONS THEN FALSE
    ELSE IF \E i \in 1..Len(file_path) : StartsWithDot(file_path[i]) THEN FALSE
    ELSE IF \E i \in 1..Len(file_path) : file_path[i] \in ignore_dirs THEN FALSE
    ELSE TRUE

\* text_splitter.split_text: a file's content is a sequence of pieces, each
\* either whitespace or a run of text that fills one chunk; the chunks are
\* the runs of text, in order.
RECURSIVE split_text(_)
split_text(content) ==
    IF content = <<>> THEN <<>>
    ELSE IF Head(content) \in WS THEN split_text(Tail(content))
    ELSE <<Head(content)>> \o split_text(Tail(content))

\* A directory entry is a record of its path below the root (rel), whether
\* it is a regular file (is_file), what stat() reports (st_size), whether
\* open() succeeds (readable) and what read() returns (content).

\* process_file were it to number the chunks from 1
ProcessFileCountingFromOne(file_path, entry) ==
    IF ~entry.readable THEN <<>>
    ELSE IF entry.st_size > MAX_FILE_SIZE THEN <<>>
    ELSE IF Strip(entry.content) = <<>> THEN <<>>
    ELSE LET chunks == split_text(entry.content)
         IN  [i \in 1..Len(chunks) |->
                [page_content |-> chunks[i],
                 metadata |-> [file_path |-> file_path,
                               file_name |-> PathName(file_path),
                               file_extension |-> PathSuffix(file_path),
                               chunk_index |-> i,
                               total_chunks |-> Len(chunks)]]]

\* CodeProcessor.process_file, on the entry found at file_path
process_file(file_path, entry) ==
    IF ~entry.readable THEN <<>>
    ELSE IF entry.st_size > MAX_FILE_SIZE THEN <<>>
    ELSE IF Strip(entry.content) = <<>> THEN <<>>
    ELSE LET chunks == split_text(entry.content)
         IN  [i \in 1..Len(chunks) |->
                [page_content |-> chunks[i],
                 metadata |-> [file_path |-> file_path,
                               file_name |-> PathName(file_path),
                               file_extension |-> PathSuffix(file_path),
                               chunk_index |-> i - 1,
                               total_chunks |-> Len(chunks)]]]

\* The documents of the first n entries of the walk.
RECURSIVE WalkUpTo(_, _, _)
WalkUpTo(repo_path, entries, n) ==
    IF n = 0 THEN <<>>
    ELSE LET file_path == repo_path \o entries[n].rel
             file_docs ==
                 IF entries[n].is_file /\ should_process_file(file_path)
                 THEN process_file(file_path, entries[n])
                 ELSE <<>>
         IN  WalkUpTo(repo_path, entries, n - 1) \o file_docs

\* The first n entries the walk gets through when an oversized or
\* unreadable file, once accepted, stops it.
RECURSIVE WalkedBeforeAbort(_, _, _)
WalkedBeforeAbort(repo_path, entries, n) ==
    IF n > Len(entries) THEN Len(entries)
    ELSE IF /\ entries[n].is_file
            /\ should_process_file(repo_path \o entries[n].rel)
            /\ (~entries[n].readable \/ entries[n].st_size > MAX_FILE_SIZE)
         THEN n - 1
         ELSE WalkedBeforeAbort(repo_path, entries, n + 1)

\* process_repository were process_file to end the walk on such a file
ProcessRepositoryAborting(repo_path, exists, entries) ==
    IF ~exists THEN <<>>
    ELSE WalkUpTo(repo_path, entries, WalkedBeforeAbort(repo_path, entries, 1))

\* CodeProcessor.process_repository, the root holding entries (rglob("*")
\* yields them in this order); exists is Path.exists() of the root.
process_repository(repo_path, exists, entries) ==
    IF ~exists THEN <<>> ELSE WalkUpTo(repo_path, entries, Len(entries))

\* ------------------------------------------------------------------- state

VARIABLES
    config,     \* Config.EMBEDDING_MODEL
    tree,       \* the directory entries under the repository root, in walk order
    store,      \* the CodeVectorStore the caller holds
    disk,       \* the persistence directory
    last,       \* the last call made: its operation, inputs and outcome
    calls,      \* how many state-changing calls were made
    prior,      \* what the directory holds, as its saves made it
    mgr,        \* the CodePalManager
    llm_ok,     \* whether CodePalAgent can be constructed under the configuration
    resolution, \* the call of _initialize_embedding_model in progress, or the last one
    providers,  \* the provider objects resolved so far, in order
    inflight    \* the call of initialize_repository in progress, if any

vars == <<config, tree, store, disk, last, calls, prior, mgr, llm_ok, resolution, providers, inflight>>

Ks == {2, DefaultK}

\* The record of a call.  pre is the store a load started from and predir
\* the directory a load or a save started from (NoCallStore and NoDirectory
\* for the other calls).
Call(op, ret, docs, query, k, pre, predir) ==
    [op |-> op, ret |-> ret, docs |-> docs, query |-> query, k |-> k,
     pre |-> pre, predir |-> predir]

FreshStores == { NewStore(config, net) : net \in NetPatterns }

NoCallStore == NoStore.obj

\* prior.status: "none" (never written), "valid" (the complete save of
\* prior.store, a store with a built index; prior.fresh when it was made on
\* a path without content), "interrupted" (a valid save followed by one or
\* more saves that stopped early), "other".
NoPrior(st) == [status |-> "none", store |-> st, fresh |-> FALSE]

PriorAfterSave(st, ret) ==
    IF ret = "ok"
    THEN IF st.faiss_index.is_none
         THEN [status |-> "other", store |-> st, fresh |-> FALSE]
         ELSE [status |-> "valid", store |-> st, fresh |-> ~disk.exists]
    ELSE IF prior.status \in {"valid", "interrupted"}
         THEN [prior EXCEPT !.status = "interrupted"]
         ELSE [prior EXCEPT !.status = "other"]

\* A store constructed under the configured name, nothing saved.
Init ==
    /\ config \in ConfigNames
    /\ tree = <<>>
    /\ store \in FreshStores
    /\ disk = NoDirectory
    /\ last = Call("init", "ok", <<>>, 1, 1, NoCallStore, NoDirectory)
    /\ calls = 0
    /\ prior = NoPrior(store)
    /\ mgr = NewManager
    /\ llm_ok = TRUE
    /\ resolution = NoResolution
    /\ providers = <<>>
    /\ inflight = NoInflight

\* vs = CodeVectorStore(): the caller takes a new store.
DoNew(budget) ==
    /\ calls < budget
    /\ calls' = calls + 1
    /\ store' \in FreshStores
    /\ last' = Call("new", "ok", <<>>, 1, 1, NoCallStore, NoDirectory)
    /\ UNCHANGED <<config, tree, disk, prior, mgr, llm_ok, resolution, providers, inflight>>

\* The lists of chunks a scan hands to add_documents: each chunk once, in
\* the order of the scan.
Batches ==
    { b \in UNION { [1..n -> Texts] : n \in 1..MaxText } :
        \A i \in 1..(Len(b) - 1) : b[i] < b[i + 1] }

\* add_documents(batch), the batch's chunks following the store's.
DoAddDocuments(budget) ==
    \E b \in Batches :
        /\ calls < budget
        /\ calls' = calls + 1
        /\ \A i \in 1..Len(store.documents) : store.documents[i].page_content < b[1]
        /\ store' = AddDocuments(store, [i \in 1..Len(b) |-> Doc(b[i])])
        /\ last' = Call("add_documents", "ok", <<>>, 1, 1, NoCallStore, NoDirectory)
        /\ UNCHANGED <<config, tree, disk, prior, mgr, llm_ok, resolution, providers, inflight>>

DoCreateEmbeddings(budget) ==
    /\ calls < budget
    /\ calls' = calls + 1
    /\ store' = CreateEmbeddings(store)
    /\ last' = Call("create_embeddings", "ok", <<>>, 1, 1, NoCallStore, NoDirectory)
    /\ UNCHANGED <<config, tree, disk, prior, mgr, llm_ok, resolution, providers, inflight>>

\* save(path), stopping at one of the points of `crashes`.
DoSaveAt(budget, crashes) ==
    \E crash \in crashes, torn \in BOOLEAN :
        LET saved == Save(store, disk, crash, torn)
        IN  /\ calls < budget
            /\ calls' = calls + 1
            /\ CanCrashAt(store, crash)
            /\ disk' = saved.dir
            /\ last' = Call("save", saved.ret, <<>>, 1, 1, NoCallStore, disk)
            /\ prior' = PriorAfterSave(store, saved.ret)
            /\ UNCHANGED <<config, tree, store, mgr, llm_ok, resolution, providers, inflight>>

DoSave(budget) == DoSaveAt(budget, CrashPoints)

DoLoad(budget) ==
    \E net \in NetPatterns :
        LET loaded == Load(store, disk, net)
        IN  /\ calls < budget
            /\ calls' = calls + 1
            /\ store' = loaded.store
            /\ last' = Call("load", loaded.ret, <<>>, 1, 1, store, disk)
            /\ UNCHANGED <<config, tree, disk, prior, mgr, llm_ok, resolution, providers, inflight>>

DoSimilaritySearch ==
    \E query \in Texts, k \in Ks :
        \E r \in SimilaritySearch(store, query, k) :
            /\ last' = Call("similarity_search",
                            IF r.raised THEN "raise" ELSE "ok",
                            r.docs, query, k, NoCallStore, NoDirectory)
            /\ UNCHANGED <<config, tree, store, disk, calls, prior, mgr, llm_ok, resolution, providers, inflight>>

DoFileSearch ==
    \E query \in Texts :
        \E r \in FileSearchRun(store, store.embedding_model, query) :
            /\ last' = Call("file_search", r.msg, r.docs, query, ToolK,
                            NoCallStore, NoDirectory)
            /\ UNCHANGED <<config, tree, store, disk, calls, prior, mgr, llm_ok, resolution, providers, inflight>>

\* The life of a store and of its directory.
Next ==
    \/ DoNew(MaxCalls)
    \/ DoAddDocuments(MaxCalls)
    \/ DoCreateEmbeddings(MaxCalls)
    \/ DoSave(MaxCalls)
    \/ DoLoad(MaxCalls)

Spec == Init /\ [][Next]_vars

\* One store and its directory, queried between the calls.
NextSearch ==
    \/ DoAddDocuments(MaxSearchCalls)
    \/ DoCreateEmbeddings(MaxSearchCalls)
    \/ DoSave(MaxSearchCalls)
    \/ DoLoad(MaxSearchCalls)
    \/ DoSimilaritySearch
    \/ DoFileSearch

SpecSearch == Init /\ [][NextSearch]_vars

\* A store built, saved without I/O failure, loaded again and queried.
NextReload ==
    \/ DoAddDocuments(MaxReloadCalls)
    \/ DoCreateEmbeddings(MaxReloadCalls)
    \/ DoSaveAt(MaxReloadCalls, {"none"})
    \/ DoLoad(MaxReloadCalls)
    \/ DoSimilaritySearch

\* The configured model is the larger one, so that the three providers
\* resolution can give differ in dimension.
InitReload == Init /\ config = OtherModelName

SpecReload == InitReload /\ [][NextReload]_vars

\* Stores built and saved one after the other onto the same directory,
\* every save complete.
NextResave ==
    \/ DoNew(MaxResaveCalls)
    \/ DoAddDocuments(MaxResaveCalls)
    \/ DoCreateEmbeddings(MaxResaveCalls)
    \/ DoSaveAt(MaxResaveCalls, {"none"})
    \/ DoLoad(MaxResaveCalls)

\* The default model name configured, the caller's store constructed with
\* the network down.
InitOffline ==
    Init /\ config = DefaultModelName /\ store.embedding_model = FallbackEmbeddingModel

SpecResave == InitOffline /\ [][NextResave]_vars

\* The record of a call of the manager.  predir is the directory the call
\* started from.
ManagerCall(op, ret, repo, force, crash, predir) ==
    [op |-> op, ret |-> ret, repo |-> repo, force |-> force, crash |-> crash,
     predir |-> predir]

\* A manager constructed, nothing saved, the LLM provider set up or not.
InitManager ==
    /\ config \in ConfigNames
    /\ tree = <<>>
    /\ store \in FreshStores
    /\ disk = NoDirectory
    /\ last = Call("init", "ok", <<>>, 1, 1, NoCallStore, NoDirectory)
    /\ calls = 0
    /\ prior = NoPrior(store)
    /\ mgr = NewManager
    /\ llm_ok \in BOOLEAN
    /\ resolution = NoResolution
    /\ providers = <<>>
    /\ inflight = NoInflight

\* initialize_repository(repo, force), stopping at one of the points of
\* `crashes`, the network being as one of `nets` describes.  The inputs the
\* call does not reach (the load's network when it rebuilds, the save's
\* crash point when it loads) are held at one value.
DoInitializeRepositoryIn(budget, crashes, nets) ==
    \E repo \in Repos, force \in BOOLEAN, net1 \in nets, net2 \in nets,
       crash \in crashes, torn \in BOOLEAN :
        /\ calls < budget
        /\ IF ~force /\ disk.exists
           THEN crash = "none" /\ ~torn
           ELSE net2 = net1
        /\ crash \in BuildFailPoints => ~torn
        /\ LET r == InitializeRepository(mgr, disk, config, repo, force, net1, net2,
                                         crash, torn, llm_ok, 2 * calls + 1)
           IN  /\ mgr' = r.mgr
               /\ disk' = r.dir
               /\ last' = ManagerCall("initialize_repository", r.ret, repo, force,
                                      crash, disk)
        /\ calls' = calls + 1
        /\ UNCHANGED <<config, tree, store, prior, llm_ok, resolution, providers, inflight>>

NextManager == DoInitializeRepositoryIn(MaxInits, FailPoints, NetCases)

SpecManager == InitManager /\ [][NextManager]_vars

\* The manager where no write of a save fails: calls end in their load, in
\* their scan, in their embedding, or complete.
NextRebuild ==
    DoInitializeRepositoryIn(MaxRebuilds, BuildFailPoints \cup {"none"}, NetCases)

SpecRebuild == InitManager /\ [][NextRebuild]_vars

\* The network down throughout.
Offline == [a \in 0..(max_retries - 1) |-> FALSE]

\* The manager without a network, every call free to stop at any point.
NextFailures == DoInitializeRepositoryIn(MaxFailingInits, FailPoints, {Offline})

InitFailures == InitManager /\ config = DefaultModelName

SpecFailures == InitFailures /\ [][NextFailures]_vars

\* Names _initialize_embedding_model is entered with: the configured one
\* (__init__) and the one read back from model_info.txt (load).
ResolutionNames == { config, Strip(config) }

\* _initialize_embedding_model is called (by __init__ or by load).
ResolveStart ==
    \E embedding_model_name \in ResolutionNames :
        /\ resolution.pc \in {"idle", "returned"}
        /\ Len(providers) < MaxProviders
        /\ resolution' = EnterResolution(embedding_model_name)
        /\ UNCHANGED <<config, tree, store, disk, last, calls, prior, mgr, llm_ok,
                       providers, inflight>>

\* One iteration of the retry loop; a return hands the provider over.
ResolveAttempt ==
    \E up \in BOOLEAN :
        /\ resolution.pc = "attempt"
        /\ resolution' = AfterAttempt(resolution, up)
        /\ providers' = IF resolution'.pc = "returned"
                        THEN Append(providers, resolution'.ret.model)
                        ELSE providers
        /\ UNCHANGED <<config, tree, store, disk, last, calls, prior, mgr, llm_ok, inflight>>

\* The sleep between two iterations ends.
ResolveSleep ==
    /\ resolution.pc = "sleep"
    /\ resolution' = AfterSleep(resolution)
    /\ UNCHANGED <<config, tree, store, disk, last, calls, prior, mgr, llm_ok,
                   providers, inflight>>

NextProvider ==
    \/ ResolveStart
    \/ ResolveAttempt
    \/ ResolveSleep

\* Provider resolution, step by step.
SpecProvider == Init /\ [][NextProvider]_vars

\* The same, a started iteration and a started sleep always ending (a load
\* that fails raises, and time.sleep returns).
SpecProviderLive ==
    Init /\ [][NextProvider]_vars /\ WF_vars(ResolveAttempt) /\ WF_vars(ResolveSleep)

\* The lists of texts passed to encode.
TextLists == UNION { [1..n -> Texts] : n \in 0..MaxBatch }

\* The record of an encode call and, for a repeated call, of the call it
\* repeats.
NoEncode == [instance |-> 0, vectors |-> <<>>]
EncodeCall(instance, texts, vectors, before) ==
    [op |-> "encode", instance |-> instance, texts |-> texts, vectors |-> vectors,
     before |-> before]

\* Mutant of ProviderEncode: the vectors depend on the provider object.
ProviderEncodeSalted(instance, texts) ==
    [i \in 1..Len(texts) |->
        [j \in 1..Len(EncodeOne(providers[instance], texts[i])) |->
            EncodeOne(providers[instance], texts[i])[j] + instance]]

\* embedding_model.encode(texts) on the instance-th provider resolved
ProviderEncode(instance, texts) == Encode(providers[instance], texts)

\* A provider is resolved (a CodeVectorStore is constructed or loaded).
DoResolve ==
    \E embedding_model_name \in ResolutionNames, net \in NetCases :
        /\ Len(providers) < MaxProviders
        /\ providers' = Append(providers, InitializeEmbeddingModel(embedding_model_name, net))
        /\ UNCHANGED <<config, tree, store, disk, last, calls, prior, mgr, llm_ok,
                       resolution, inflight>>

\* encode(texts) on one of the providers.
DoEncode ==
    \E instance \in 1..Len(providers), texts \in TextLists :
        /\ last' = EncodeCall(instance, texts, ProviderEncode(instance, texts), NoEncode)
        /\ UNCHANGED <<config, tree, store, disk, calls, prior, mgr, llm_ok,
                       resolution, providers, inflight>>

\* encode on the texts of the call before, on the same or another provider.
DoEncodeAgain ==
    \E instance \in 1..Len(providers) :
        /\ last.op = "encode"
        /\ last' = EncodeCall(instance, last.texts, ProviderEncode(instance, last.texts),
                              [instance |-> last.instance, vectors |-> last.vectors])
        /\ UNCHANGED <<config, tree, store, disk, calls, prior, mgr, llm_ok,
                       resolution, providers, inflight>>

NextEncode ==
    \/ DoResolve
    \/ DoEncode
    \/ DoEncodeAgain

\* The store the caller holds was constructed with the network down.
InitEncode == Init /\ store.embedding_model = FallbackEmbeddingModel

\* Providers and their encode calls.
SpecEncode == InitEncode /\ [][NextEncode]_vars

\* ------------------------------------- the manager, its calls interleaved

\* initialize_repository(repo, force) is entered: the test of line 173
\* sends it to the load or to the rebuild.  old is the pair at entry.
BeginInitialize ==
    \E repo \in Repos, force \in BOOLEAN :
        /\ inflight.pc = "idle"
        /\ calls < MaxConcurrentInits
        /\ calls' = calls + 1
        /\ inflight' = [pc |-> IF ~force /\ disk.exists THEN "new_store_for_load" ELSE "scan",
                        repo |-> repo, force |-> force, documents |-> <<>>,
                        old |-> ManagerPair(mgr), oid |-> 2 * calls + 1, ret |-> ""]
        /\ UNCHANGED <<config, tree, store, disk, last, prior, mgr, llm_ok, resolution, providers>>

\* The call returns ret.
Returned(ret) == [inflight EXCEPT !.pc = "idle", !.ret = ret]

\* self.vector_store = CodeVectorStore()   (line 175)
StepNewStoreForLoad ==
    \E net \in NetCases :
        /\ inflight.pc = "new_store_for_load"
        /\ mgr' = [mgr EXCEPT !.vector_store = StoreRef(inflight.oid, NewStore(config, net))]
        /\ inflight' = [inflight EXCEPT !.pc = "load"]
        /\ UNCHANGED <<config, tree, store, disk, last, calls, prior, llm_ok, resolution, providers>>

\* self.vector_store.load(vector_store_path)   (line 176): the store the
\* manager already points to is filled in place.
StepLoad ==
    \E net \in NetCases :
        LET loaded == Load(mgr.vector_store.obj, disk, net)
        IN  /\ inflight.pc = "load"
            /\ mgr' = [mgr EXCEPT !.vector_store.obj = loaded.store]
            /\ inflight' = CASE loaded.ret = "raise" -> Returned(ErrorMessage)
                              [] loaded.ret = "True" -> [inflight EXCEPT !.pc = "agent_for_load"]
                              [] OTHER -> [inflight EXCEPT !.pc = "scan"]
            /\ UNCHANGED <<config, tree, store, disk, last, calls, prior, llm_ok, resolution, providers>>

\* self.agent = CodePalAgent(self.vector_store); return   (lines 177-178)
StepAgentForLoad ==
    /\ inflight.pc = "agent_for_load"
    /\ mgr' = IF llm_ok THEN [mgr EXCEPT !.agent = CodePalAgent(mgr.vector_store)] ELSE mgr
    /\ inflight' = Returned(IF llm_ok THEN LoadedMessage ELSE ErrorMessage)
    /\ UNCHANGED <<config, tree, store, disk, last, calls, prior, llm_ok, resolution, providers>>

\* self.processor = CodeProcessor(); the scan; return on no documents
\* (lines 182-188)
StepScan ==
    LET documents == ProcessRepository(inflight.repo)
    IN  /\ inflight.pc = "scan"
        /\ mgr' = [mgr EXCEPT !.processor = TRUE]
        /\ inflight' = IF documents = <<>>
                       THEN Returned(NoFilesMessage)
                       ELSE [inflight EXCEPT !.pc = "new_store", !.documents = documents]
        /\ UNCHANGED <<config, tree, store, disk, last, calls, prior, llm_ok, resolution, providers>>

\* self.vector_store = CodeVectorStore()   (line 191)
StepNewStore ==
    \E net \in NetCases :
        /\ inflight.pc = "new_store"
        /\ mgr' = [mgr EXCEPT !.vector_store = StoreRef(inflight.oid + 1, NewStore(config, net))]
        /\ inflight' = [inflight EXCEPT !.pc = "add_documents"]
        /\ UNCHANGED <<config, tree, store, disk, last, calls, prior, llm_ok, resolution, providers>>

\* self.vector_store.add_documents(documents)   (line 192)
StepAddDocuments ==
    /\ inflight.pc = "add_documents"
    /\ mgr' = [mgr EXCEPT !.vector_store.obj = AddDocuments(@, inflight.documents)]
    /\ inflight' = [inflight EXCEPT !.pc = "create_embeddings"]
    /\ UNCHANGED <<config, tree, store, disk, last, calls, prior, llm_ok, resolution, providers>>

\* self.vector_store.create_embeddings()   (line 193)
StepCreateEmbeddings ==
    /\ inflight.pc = "create_embeddings"
    /\ mgr' = [mgr EXCEPT !.vector_store.obj = CreateEmbeddings(@)]
    /\ inflight' = [inflight EXCEPT !.pc = "save"]
    /\ UNCHANGED <<config, tree, store, disk, last, calls, prior, llm_ok, resolution, providers>>

\* self.vector_store.save(vector_store_path)   (line 196), no write failing
StepSave ==
    /\ inflight.pc = "save"
    /\ disk' = Save(mgr.vector_store.obj, disk, "none", FALSE).dir
    /\ inflight' = [inflight EXCEPT !.pc = "agent"]
    /\ UNCHANGED <<config, tree, store, last, calls, prior, mgr, llm_ok, resolution, providers>>

\* self.agent = CodePalAgent(self.vector_store); return   (lines 199-201)
StepAgent ==
    /\ inflight.pc = "agent"
    /\ mgr' = IF llm_ok THEN [mgr EXCEPT !.agent = CodePalAgent(mgr.vector_store)] ELSE mgr
    /\ inflight' = Returned(IF llm_ok THEN SuccessMessage ELSE ErrorMessage)
    /\ UNCHANGED <<config, tree, store, disk, last, calls, prior, llm_ok, resolution, providers>>

NoRepositoryLoaded == "No repository loaded"
RepositoryLoaded == "Repository loaded"
PleaseInitialize == "Please initialize a repository first before asking questions."
AgentAnswer == "answer"

\* The record of a reader's call: whether an initialize_repository was in
\* progress, the pair that call started from, and the pair the reader used.
ReaderCall(op, ret, seen) ==
    [op |-> op, ret |-> ret, during |-> inflight.pc # "idle", old |-> inflight.old,
     seen |-> seen]

\* CodePalManager.get_repository_info
GetRepositoryInfo(m) ==
    IF m.vector_store.is_none
    THEN [status |-> NoRepositoryLoaded, total_documents |-> 0, available_tools |-> <<>>]
    ELSE [status |-> RepositoryLoaded,
          total_documents |-> Len(m.vector_store.obj.documents),
          available_tools |-> IF m.agent.is_none THEN <<>> ELSE m.agent.tools]

\* get_repository_info() by another thread
DoGetRepositoryInfo ==
    /\ last' = ReaderCall("get_repository_info", GetRepositoryInfo(mgr), ManagerPair(mgr))
    /\ UNCHANGED <<config, tree, store, disk, calls, prior, mgr, llm_ok, resolution,
                   providers, inflight>>

\* CodePalManager.ask_question: the agent answers over its own store.
AskQuestion(m) == IF m.agent.is_none THEN PleaseInitialize ELSE AgentAnswer

\* ask_question(question) by another thread
DoAskQuestion ==
    /\ last' = ReaderCall("ask_question", AskQuestion(mgr),
                          [vector_store |-> mgr.agent.vector_store, agent |-> mgr.agent])
    /\ UNCHANGED <<config, tree, store, disk, calls, prior, mgr, llm_ok, resolution,
                   providers, inflight>>

NextConcurrent ==
    \/ BeginInitialize
    \/ StepNewStoreForLoad
    \/ StepLoad
    \/ StepAgentForLoad
    \/ StepScan
    \/ StepNewStore
    \/ StepAddDocuments
    \/ StepCreateEmbeddings
    \/ StepSave
    \/ StepAgent
    \/ DoGetRepositoryInfo
    \/ DoAskQuestion

\* The store the caller holds plays no part here.
InitConcurrent == Init /\ store.embedding_model = FallbackEmbeddingModel

\* One thread in initialize_repository, readers on the same manager.
SpecConcurrent == InitConcurrent /\ [][NextConcurrent]_vars

\* --------------------------------------------- two sessions, one directory

\* Two sessions of the application, each with its own CodePalManager, on
\* the one directory Config.VECTOR_STORE_PATH/code_vectors.  Each call
\* rebuilds (force_reprocess, or no directory yet); its scan and its build
\* touch only the session's own objects and are one step, its save is one
\* step per statement of CodeVectorStore.save.
Sessions == {1, 2}

\* initialize_repository up to the call of save   (agent.py lines 180-193)
SessionBuild(s) ==
    \E repo \in Repos, force \in BOOLEAN :
        LET documents == ProcessRepository(repo)
            built == CreateEmbeddings(AddDocuments(NewStore(config, Offline), documents))
        IN  /\ inflight[s].pc = "idle"
            /\ calls < MaxSessionInits
            /\ force \/ ~disk.exists
            /\ calls' = calls + 1
            /\ inflight' = [inflight EXCEPT ![s] =
                    IF documents = <<>>
                    THEN [pc |-> "idle", repo |-> repo, vector_store |-> @.vector_store,
                          ret |-> NoFilesMessage]
                    ELSE [pc |-> "makedirs", repo |-> repo,
                          vector_store |-> StoreRef(calls + 1, built), ret |-> ""]]
            /\ UNCHANGED <<config, tree, store, disk, last, prior, mgr, llm_ok,
                           resolution, providers>>

\* os.makedirs(path, exist_ok=True)   (vector_store.py line 150)
SessionMakedirs(s) ==
    /\ inflight[s].pc = "makedirs"
    /\ disk' = [disk EXCEPT !.exists = TRUE]
    /\ inflight' = [inflight EXCEPT ![s].pc = "faiss_index.bin"]
    /\ UNCHANGED <<config, tree, store, last, calls, prior, mgr, llm_ok,
                   resolution, providers>>

\* faiss.write_index(...)   (lines 153-154)
SessionWriteIndex(s) ==
    /\ inflight[s].pc = "faiss_index.bin"
    /\ disk' = IF inflight[s].vector_store.obj.faiss_index.is_none THEN disk
               ELSE [disk EXCEPT !.faiss_index_bin =
                        [state |-> "ok",
                         index |-> inflight[s].vector_store.obj.faiss_index]]
    /\ inflight' = [inflight EXCEPT ![s].pc = "documents.pkl"]
    /\ UNCHANGED <<config, tree, store, last, calls, prior, mgr, llm_ok,
                   resolution, providers>>

\* pickle.dump(self.documents, f)   (lines 157-158)
SessionWriteDocuments(s) ==
    /\ inflight[s].pc = "documents.pkl"
    /\ disk' = [disk EXCEPT !.documents_pkl =
                   [state |-> "ok",
                    documents |-> inflight[s].vector_store.obj.documents]]
    /\ inflight' = [inflight EXCEPT ![s].pc = "model_info.txt"]
    /\ UNCHANGED <<config, tree, store, last, calls, prior, mgr, llm_ok,
                   resolution, providers>>

\* f.write(self.embedding_model_name), then the agent and the return
\* (vector_store.py lines 161-162, agent.py lines 199-201)
SessionWriteModelInfo(s) ==
    /\ inflight[s].pc = "model_info.txt"
    /\ disk' = [disk EXCEPT !.model_info_txt =
                   [state |-> "ok",
                    text |-> inflight[s].vector_store.obj.embedding_model_name]]
    /\ inflight' = [inflight EXCEPT ![s].pc = "idle",
                                    ![s].ret = IF llm_ok THEN SuccessMessage
                                               ELSE ErrorMessage]
    /\ UNCHANGED <<config, tree, store, last, calls, prior, mgr, llm_ok,
                   resolution, providers>>

NextSessions ==
    \E s \in Sessions :
        \/ SessionBuild(s)
        \/ SessionMakedirs(s)
        \/ SessionWriteIndex(s)
        \/ SessionWriteDocuments(s)
        \/ SessionWriteModelInfo(s)

InitSessions ==
    /\ config = DefaultModelName
    /\ tree = <<>>
    /\ store = NewStore(config, Offline)
    /\ disk = NoDirectory
    /\ last = Call("init", "ok", <<>>, 1, 1, NoCallStore, NoDirectory)
    /\ calls = 0
    /\ prior = NoPrior(store)
    /\ mgr = NewManager
    /\ llm_ok = TRUE
    /\ resolution = NoResolution
    /\ providers = <<>>
    /\ inflight = [s \in Sessions |->
                      [pc |-> "idle", repo |-> "", vector_store |-> NoStore, ret |-> ""]]

SpecSessions == InitSessions /\ [][NextSessions]_vars

\* ---------------------------------------------------------- scanner, calls

\* The repository root as the caller names it: repo, ../repo, venv/repo.
Roots ==
    { << <<"repo">> >>,
      << <<".", ".">>, <<"repo">> >>,
      << <<"venv">>, <<"repo">> >> }

\* What a file may be: one chunk of text, two chunks in a file of exactly
\* the size limit, whitespace only, larger than the limit, unreadable.
FileKinds ==
    { [st_size |-> 500, readable |-> TRUE, content |-> <<"def f", "\n">>],
      [st_size |-> MAX_FILE_SIZE, readable |-> TRUE,
       content |-> <<"def f", "\n", "def g">>],
      [st_size |-> 2, readable |-> TRUE, content |-> <<"\n", " ">>],
      [st_size |-> MAX_FILE_SIZE + 1, readable |-> TRUE,
       content |-> <<"def f", "\n", "def g">>],
      [st_size |-> 500, readable |-> FALSE, content |-> <<"def f", "\n">>] }

\* The files that may be written below the root: a.py, vendor.js/d.py and
\* f.md of every kind; b.png, .git/c.py and venv/e.js with one chunk of text.
FileChoices ==
    ({ << <<"a", ".", "py">> >>,
       << <<"vendor", ".", "js">>, <<"d", ".", "py">> >>,
       << <<"f", ".", "md">> >> } \X FileKinds)
    \cup
    ({ << <<"b", ".", "png">> >>,
       << <<".", "git">>, <<"c", ".", "py">> >>,
       << <<"venv">>, <<"e", ".", "js">> >> }
        \X { [st_size |-> 500, readable |-> TRUE, content |-> <<"def f", "\n">>] })

\* The record of a call of the scanner.
ScanCall(op, repo_path, exists, index, ret) ==
    [op |-> op, repo_path |-> repo_path, exists |-> exists, index |-> index,
     ret |-> ret]

\* The environment writes a file below the root, making its directory
\* first when there is none (open() of a directory raises); the last call
\* no longer describes the tree.
DoCreateFile ==
    /\ Cardinality({ i \in 1..Len(tree) : tree[i].is_file }) < MaxFiles
    /\ \E choice \in FileChoices :
        /\ \A i \in 1..Len(tree) : tree[i].rel # choice[1]
        /\ LET rel == choice[1]
               kind == choice[2]
               dir == SubSeq(rel, 1, Len(rel) - 1)
               made == IF dir = <<>> \/ \E i \in 1..Len(tree) : tree[i].rel = dir
                       THEN <<>>
                       ELSE <<[rel |-> dir, is_file |-> FALSE, st_size |-> 4096,
                               readable |-> FALSE, content |-> <<>>]>>
               file == [rel |-> rel, is_file |-> TRUE, st_size |-> kind.st_size,
                        readable |-> kind.readable, content |-> kind.content]
           IN  /\ tree' = tree \o made \o <<file>>
               /\ last' = ScanCall("write", <<>>, TRUE, Len(tree'), <<>>)
    /\ UNCHANGED <<config, store, disk, calls, prior, mgr, llm_ok,
                   resolution, providers, inflight>>

\* documents = processor.process_repository(repo_path)
DoProcessRepository ==
    /\ \E repo_path \in Roots, exists \in BOOLEAN :
        /\ ~exists => tree = <<>>
        /\ last' = ScanCall("process_repository", repo_path, exists, 0,
                            process_repository(repo_path, exists, tree))
    /\ UNCHANGED <<config, tree, store, disk, calls, prior, mgr, llm_ok,
                   resolution, providers, inflight>>

\* processor.process_file(file_path) on the entry written last
DoProcessFile ==
    /\ tree # <<>>
    /\ \E repo_path \in Roots :
        LET i == Len(tree)
        IN  last' = ScanCall("process_file", repo_path, TRUE, i,
                             process_file(repo_path \o tree[i].rel, tree[i]))
    /\ UNCHANGED <<config, tree, store, disk, calls, prior, mgr, llm_ok,
                   resolution, providers, inflight>>

NextScan ==
    \/ DoCreateFile
    \/ DoProcessRepository
    \/ DoProcessFile

\* A repository tree written file by file, and scans of it.  The
\* configured model name and the store play no part here.
SpecScan == InitOffline /\ [][NextScan]_vars

\* ------------------------------------------------------------------ claims

\* A store as its constructor leaves it.
IsFresh(st) ==
    /\ st.documents = <<>>
    /\ st.faiss_index.is_none
    /\ st.embeddings.is_none
    /\ st.docstore = NewDocumentStore

\* What a load of directory dir can give a newly constructed store.
FreshLoads(dir) ==
    { Load(fresh, dir, net) : fresh \in FreshStores, net \in NetPatterns }

\* The distance from the query, under the store's provider, of a document.
Distance(st, query, doc) ==
    L2Sq(EncodeOne(st.embedding_model, doc.page_content),
         EncodeOne(st.embedding_model, query))

NonDecreasing(st, query, docs) ==
    \A i \in 1..(Len(docs) - 1) :
        Distance(st, query, docs[i]) <= Distance(st, query, docs[i + 1])

\* Every document of the list once, and nothing else.
EachOnce(docs, documents) ==
    /\ Len(docs) = Len(documents)
    /\ \A i \in 1..Len(documents) : \E j \in 1..Len(docs) : docs[j] = documents[i]

\* The index is the one create_embeddings builds from the store's documents
\* under the store's provider.
IndexOfDocuments(st) ==
    /\ ~st.faiss_index.is_none
    /\ st.faiss_index.xb = Encode(st.embedding_model, PageContents(st.documents))

\* C1: once create_embeddings has succeeded on a store (its embeddings are
\* set), the index holds as many vectors as the store holds documents,
\* whatever calls follow.
C1_IndexAlignedWithDocuments ==
    ~store.embeddings.is_none => ntotal(store.faiss_index) = Len(store.documents)

\* C2, as claimed: a load into a new store of a directory written by one
\* complete save, on a path without content, of a store with a built index
\* gives that store's documents, index and embedding_model_name.
C2_RoundTripExact ==
    (last.op = "load" /\ prior.status = "valid" /\ prior.fresh /\ IsFresh(last.pre))
    => /\ last.ret = "True"
       /\ store.documents = prior.store.documents
       /\ store.faiss_index = prior.store.faiss_index
       /\ store.embedding_model_name = prior.store.embedding_model_name

\* C2, amended: the same, the name being the saved name with its leading
\* and trailing whitespace removed.
C2_RoundTripUpToStrip ==
    (last.op = "load" /\ prior.status = "valid" /\ prior.fresh /\ IsFresh(last.pre))
    => /\ last.ret = "True"
       /\ store.documents = prior.store.documents
       /\ store.faiss_index = prior.store.faiss_index
       /\ LStrip(store.embedding_model_name) = store.embedding_model_name
       /\ RStrip(store.embedding_model_name) = store.embedding_model_name
       /\ \E lead, trail \in {<<>>, <<" ">>, <<"\n">>} :
            prior.store.embedding_model_name =
                lead \o store.embedding_model_name \o trail

C2_Witness ==
    /\ last.op = "load" /\ prior.status = "valid" /\ prior.fresh /\ IsFresh(last.pre)
    /\ Len(store.documents) = 2
    /\ ntotal(store.faiss_index) = 2

\* C3: after a save that stopped early on a directory holding a valid save,
\* a load of the directory gives exactly the saved index, documents and
\* name (the name as a load reads it), never a mixture.
C3_InterruptedSaveKeepsPrior ==
    (last.op = "save" /\ last.ret = "raise" /\ prior.status = "interrupted")
    => \A r \in FreshLoads(disk) :
          /\ r.ret = "True"
          /\ r.store.documents = prior.store.documents
          /\ r.store.faiss_index = prior.store.faiss_index
          /\ r.store.embedding_model_name = Strip(prior.store.embedding_model_name)

\* The directory holds two of the three files, intact, and lacks the third.
MissingArtifact(dir) ==
    /\ { dir.faiss_index_bin.state, dir.documents_pkl.state, dir.model_info_txt.state }
          = {"absent", "ok"}
    /\ Cardinality({ f \in {"index", "docs", "info"} :
            (CASE f = "index" -> dir.faiss_index_bin.state
               [] f = "docs" -> dir.documents_pkl.state
               [] f = "info" -> dir.model_info_txt.state) = "absent" }) = 1

\* C4: a load of an existing directory that lacks one of the three files
\* does not return True and leaves the store as it was.
C4_PartialDirectoryLoadFails ==
    (last.op = "load" /\ last.predir.exists /\ MissingArtifact(last.predir))
    => /\ last.ret # "True"
       /\ store = last.pre

\* C6: a load of a path that does not exist returns False, without raising,
\* and leaves the store as it was.
C6_MissingPathLoad ==
    (last.op = "load" /\ ~last.predir.exists)
    => /\ last.ret = "False"
       /\ store = last.pre

C6_Witness ==
    /\ last.op = "load" /\ ~last.predir.exists
    /\ last.ret = "False"
    /\ ~store.faiss_index.is_none
    /\ store.documents # <<>>

\* C7: with k above the number n >= 1 of stored vectors (the index being
\* that of the store's documents), similarity_search and the tool, with
\* its k of 5, return the n documents, each once, by ascending distance.
C7_KAboveCountReturnsAll ==
    (/\ last.op \in {"similarity_search", "file_search"}
     /\ IndexOfDocuments(store)
     /\ last.k > ntotal(store.faiss_index))
    => /\ last.ret \in {"ok", SearchResults}
       /\ EachOnce(last.docs, store.documents)
       /\ NonDecreasing(store, last.query, last.docs)

\* C8: similarity_search on a store without a built index returns the
\* empty list and does not raise.
C8_NoIndexEmptyResult ==
    (last.op = "similarity_search" /\ store.faiss_index.is_none)
    => /\ last.ret = "ok"
       /\ last.docs = <<>>

\* The store was loaded from a directory without an index file: its
\* document store is filled and create_embeddings never ran on it.
C8_Witness ==
    /\ last.op = "similarity_search" /\ store.faiss_index.is_none
    /\ last.ret = "ok"
    /\ store.embeddings.is_none
    /\ store.docstore.counter > 0
    /\ disk.exists /\ disk.faiss_index_bin.state = "absent"

\* C9: whenever the search over the tool's store yields no documents, a
\* store whose faiss_index is None included, the tool answers that no
\* relevant files were found.
C9_NoDocumentsMessage ==
    (/\ last.op = "file_search"
     /\ SimilaritySearch(store, last.query, ToolK) = { [raised |-> FALSE, docs |-> <<>>] })
    => last.ret = NoRelevantFiles

\* C10: similarity_search, on the index of the store's documents, returns
\* documents by non-decreasing distance from the query; a query that is
\* the content of an indexed document gets that document, at distance 0,
\* first; 3 indexed documents and k = 2 give exactly 2 documents.
C10_SortedSelfMatchFirst ==
    (last.op = "similarity_search" /\ IndexOfDocuments(store))
    => /\ last.ret = "ok"
       /\ NonDecreasing(store, last.query, last.docs)
       /\ (\E i \in 1..Len(store.documents) :
              store.documents[i].page_content = last.query)
          => /\ last.docs # <<>>
             /\ last.docs[1].page_content = last.query
             /\ Distance(store, last.query, last.docs[1]) = 0
       /\ (Len(store.documents) = 3 /\ last.k = 2) => Len(last.docs) = 2

\* Some file of the directory is missing or torn.
Damaged(dir) ==
    \E state \in { dir.faiss_index_bin.state, dir.documents_pkl.state,
                   dir.model_info_txt.state } : state # "ok"

\* C5: initialize_repository without force_reprocess, on a directory that
\* exists but is corrupt or partial, rebuilds (the repository having
\* documents, the save completing, the agent constructible): it returns
\* the success summary and serves the store built from the scan.
C5_DamagedDirectoryRebuilds ==
    (/\ last.op = "initialize_repository"
     /\ ~last.force
     /\ last.predir.exists /\ Damaged(last.predir)
     /\ ProcessRepository(last.repo) # <<>>
     /\ last.crash = "none"
     /\ llm_ok)
    => /\ last.ret = SuccessMessage
       /\ ~mgr.agent.is_none
       /\ mgr.agent.vector_store.obj.documents = ProcessRepository(last.repo)

\* What holds of a call of _initialize_embedding_model at every step: no
\* load failure leaves it, it makes at most max_retries attempts, and what
\* it returns is a provider, the local fallback exactly when every attempt
\* it made failed.
ResolutionSafe ==
    /\ resolution.pc # "raised"
    /\ Len(resolution.tried) <= max_retries
    /\ resolution.pc = "returned"
       => /\ ~resolution.ret.is_none
          /\ resolution.ret.model = FallbackEmbeddingModel
             <=> resolution.failed = Len(resolution.tried)
          /\ resolution.ret.model = FallbackEmbeddingModel
             => resolution.failed = max_retries

\* C11: _initialize_embedding_model, whatever loads fail, ends by returning
\* a provider: at most 3 attempts, no failure propagated, the local
\* fallback exactly when every attempt failed.
C11_ResolutionReturnsProvider ==
    /\ []ResolutionSafe
    /\ (resolution.pc = "attempt") ~> (resolution.pc = "returned")

\* Every attempt failed and the local fallback was returned.
C11_Witness ==
    /\ resolution.pc = "returned"
    /\ resolution.failed = max_retries
    /\ resolution.ret.model = FallbackEmbeddingModel
    /\ resolution.embedding_model_name = OtherModelName

\* The attempts of tier `tier` among the first n.
TierAttempts(tried, tier, n) ==
    Cardinality({ i \in 1..n : tried[i].tier = tier })

\* C12: the hard-coded fallback model is first attempted only after
\* max_retries attempts of the configured model, and the local fallback is
\* constructed only after max_retries attempts of the fallback model.
C12_TiersRetriedInFull ==
    /\ \A i \in 1..Len(resolution.tried) :
          resolution.tried[i].tier = "fallback_model"
          => TierAttempts(resolution.tried, "primary", i - 1) = max_retries
    /\ (resolution.pc = "returned" /\ resolution.ret.model = FallbackEmbeddingModel)
       => TierAttempts(resolution.tried, "fallback_model", Len(resolution.tried))
            = max_retries

\* C13: the text a complete save writes to model_info.txt names the
\* provider that produced the store's index: the loaded model's name for a
\* SentenceTransformer (the fallback model's when that one was loaded), and
\* for the local fallback an identity that is no downloadable model's name.
C13_SavedNameIsBackend ==
    (last.op = "save" /\ last.ret = "ok" /\ IndexOfDocuments(store))
    => /\ disk.model_info_txt.state = "ok"
       /\ IF store.embedding_model.kind = "SentenceTransformer"
          THEN Strip(disk.model_info_txt.text) = store.embedding_model.name
          ELSE Strip(disk.model_info_txt.text) \notin HubModels

\* C14: encode of the local fallback provider returns one vector per text,
\* the i-th being the vector of the i-th text, all of one dimension.
C14_FallbackEncodeOnePerText ==
    (last.op = "encode" /\ providers[last.instance].kind = "FallbackEmbeddingModel")
    => /\ Len(last.vectors) = Len(last.texts)
       /\ \A i \in 1..Len(last.texts) :
             last.vectors[i] = FallbackTable[last.texts[i]]
       /\ \A i, j \in 1..Len(last.vectors) :
             Len(last.vectors[i]) = Len(last.vectors[j])

\* Two different texts were encoded, not in the order of their identifiers.
C14_Witness ==
    /\ last.op = "encode" /\ providers[last.instance].kind = "FallbackEmbeddingModel"
    /\ Len(last.texts) = 2
    /\ last.texts[1] > last.texts[2]
    /\ last.vectors[1] # last.vectors[2]

ProviderDimension(model) == Len(EncodeOne(model, 1))

\* C16: when the provider a load re-resolved encodes to another dimension
\* than the loaded index's, similarity_search raises and returns no
\* documents.
C16_DimensionMismatchRaises ==
    (/\ last.op = "similarity_search"
     /\ ~store.faiss_index.is_none
     /\ ProviderDimension(store.embedding_model) # store.faiss_index.d)
    => /\ last.ret = "raise"
       /\ last.docs = <<>>

\* The store holds what a load read back from a complete save, under a
\* provider of another dimension than the saved index's.
C16_Witness ==
    /\ last.op = "similarity_search" /\ last.ret = "raise"
    /\ disk.faiss_index_bin.state = "ok"
    /\ store.faiss_index = disk.faiss_index_bin.index
    /\ store.documents = disk.documents_pkl.documents
    /\ store.documents # <<>>
    /\ store.embedding_model_name = Strip(disk.model_info_txt.text)
    /\ ProviderDimension(store.embedding_model) # store.faiss_index.d

\* C17: initialize_repository without force_reprocess, on a directory that
\* holds the complete save of another repository's documents, does not
\* serve those documents as this repository's.
C17_DirectoryPerRepository ==
    (/\ last.op = "initialize_repository"
     /\ ~last.force
     /\ last.predir.exists /\ ~Damaged(last.predir)
     /\ last.predir.documents_pkl.documents # ProcessRepository(last.repo))
    => /\ mgr.vector_store.is_none
          \/ mgr.vector_store.obj.documents # last.predir.documents_pkl.documents
       /\ mgr.agent.is_none
          \/ mgr.agent.vector_store.obj.documents # last.predir.documents_pkl.documents

\* The documents a store reference serves are those of the list (none at
\* all for no reference).
ServesOnly(ref, documents) == ref.is_none \/ ref.obj.documents = documents

\* C18: after initialize_repository with force_reprocess (no I/O failure
\* in its save), the manager's store, its agent's store and the directory
\* hold the chunks of this call's scan and nothing else, an empty scan
\* included.
C18_ForceReprocessReplacesAll ==
    (last.op = "initialize_repository" /\ last.force /\ last.crash = "none")
    => /\ ServesOnly(mgr.vector_store, ProcessRepository(last.repo))
       /\ mgr.agent.is_none
          \/ ServesOnly(mgr.agent.vector_store, ProcessRepository(last.repo))
       /\ disk.documents_pkl.state = "ok"
          => disk.documents_pkl.documents = ProcessRepository(last.repo)
       /\ disk.faiss_index_bin.state = "ok"
          => ntotal(disk.faiss_index_bin.index) = Len(ProcessRepository(last.repo))

\* The call ended without success before its save: in the load, in the
\* scan, in the embedding, or on an empty scan.
EndedBeforeSave ==
    /\ last.op = "initialize_repository"
    /\ \/ last.ret = NoFilesMessage
       \/ last.ret = ErrorMessage /\ last.crash \in BuildFailPoints
       \/ last.ret = ErrorMessage /\ ~last.force /\ last.predir.exists

\* C20: an initialize_repository that ends without success before its
\* save leaves the directory as it was.
C20_FailedRunLeavesDirectory ==
    EndedBeforeSave => disk = last.predir

\* A forced call on a complete directory stopped in its embedding.
C20_Witness ==
    /\ EndedBeforeSave
    /\ last.force /\ last.crash = "embed"
    /\ last.predir.exists /\ ~Damaged(last.predir)
    /\ ~mgr.vector_store.is_none
    /\ mgr.vector_store.obj.documents # last.predir.documents_pkl.documents

\* C19: a reader that runs while initialize_repository is in progress
\* finds the store and agent the call started from (the call's own pair is
\* complete only once its last assignment, the agent's, is made and it
\* returns), never an empty, half-built or mixed pair.
C19_ReadersSeeOldOrNew ==
    (last.op \in {"get_repository_info", "ask_question"} /\ last.during)
    => last.seen = last.old

\* The paths the documents of a scan come from.
SourcesOf(documents) ==
    { documents[i].metadata.file_path : i \in 1..Len(documents) }

\* No segment of the path starts with '.' or names an ignored directory.
NoIgnoredSegment(path) ==
    \A i \in 1..Len(path) :
        ~StartsWithDot(path[i]) /\ path[i] \notin ignore_dirs

\* C21: process_repository yields documents for exactly the paths under
\* the root that are regular files with a supported extension, of size at
\* most MAX_FILE_SIZE, non-blank (what read() returns holds text), and
\* without a segment below the root that starts with '.' or names an
\* ignored directory.
C21_ScanYieldsExactlyEligible ==
    (last.op = "process_repository" /\ last.exists) =>
        SourcesOf(last.ret) =
            { last.repo_path \o tree[i].rel : i \in
                { j \in 1..Len(tree) :
                    /\ tree[j].is_file
                    /\ PathSuffix(tree[j].rel) \in SUPPORTED_EXTENSIONS
                    /\ tree[j].st_size <= MAX_FILE_SIZE
                    /\ tree[j].readable /\ Strip(tree[j].content) # <<>>
                    /\ NoIgnoredSegment(tree[j].rel) } }

\* The paths below the root that the documents of a scan come from.
RelSourcesOf(documents, repo_path) ==
    { SubSeq(p, Len(repo_path) + 1, Len(p)) : p \in SourcesOf(documents) }

\* C27: the files a scan accepts depend only on their paths relative to
\* the root: a scan of the same tree under any other root yields the same
\* set of files.
C27_RootSegmentsPlayNoPart ==
    (last.op = "process_repository" /\ last.exists) =>
        \A other \in Roots :
            RelSourcesOf(last.ret, last.repo_path) =
                RelSourcesOf(process_repository(other, TRUE, tree), other)


\* process_file returns no documents for the entry: it is larger than
\* MAX_FILE_SIZE or reading it raises.
TooLargeOrUnreadable(entry) ==
    entry.st_size > MAX_FILE_SIZE \/ ~entry.readable

\* The entry is a regular file that _should_process_file accepts.
Accepted(repo_path, entry) ==
    entry.is_file /\ should_process_file(repo_path \o entry.rel)

\* The documents of the accepted files among the first n entries, those
\* too large or unreadable left out, in walk order.
RECURSIVE DocumentsOfOthers(_, _, _)
DocumentsOfOthers(repo_path, entries, n) ==
    IF n = 0 THEN <<>>
    ELSE DocumentsOfOthers(repo_path, entries, n - 1) \o
         (IF Accepted(repo_path, entries[n]) /\ ~TooLargeOrUnreadable(entries[n])
          THEN process_file(repo_path \o entries[n].rel, entries[n])
          ELSE <<>>)

\* C23: in process_repository a file that is too large or whose read raises
\* contributes no document and does not end the walk: the result is the
\* concatenation, in walk order, of the documents of the other accepted
\* files.
C23_SkippedFilesDoNotAbort ==
    (last.op = "process_repository" /\ last.exists) =>
        /\ \A i \in 1..Len(tree) :
            TooLargeOrUnreadable(tree[i]) =>
                (last.repo_path \o tree[i].rel) \notin SourcesOf(last.ret)
        /\ last.ret = DocumentsOfOthers(last.repo_path, tree, Len(tree))

\* A scan that met an oversized file and an unreadable file, both accepted,
\* before a file it returned documents of.
C23_Witness ==
    /\ last.op = "process_repository" /\ last.exists
    /\ \E i, j, k \in 1..Len(tree) :
        /\ i < k /\ j < k
        /\ Accepted(last.repo_path, tree[i]) /\ tree[i].st_size > MAX_FILE_SIZE
        /\ Accepted(last.repo_path, tree[j]) /\ ~tree[j].readable
        /\ (last.repo_path \o tree[k].rel) \in SourcesOf(last.ret)


\* C30: when process_file yields n >= 1 chunks, the documents are in chunk
\* order, document i carries chunk_index i (from 0) and every document
\* carries total_chunks n and the same file_path, file_name and
\* file_extension.
C30_ChunkMetadata ==
    (last.op = "process_file" /\ Len(last.ret) >= 1) =>
        LET n == Len(last.ret)
            chunks == split_text(tree[last.index].content)
        IN  /\ n = Len(chunks)
            /\ \A i \in 0..(n - 1) :
                /\ last.ret[i + 1].page_content = chunks[i + 1]
                /\ last.ret[i + 1].metadata.chunk_index = i
                /\ last.ret[i + 1].metadata.total_chunks = n
                /\ last.ret[i + 1].metadata.file_path = last.ret[1].metadata.file_path
                /\ last.ret[i + 1].metadata.file_name = last.ret[1].metadata.file_name
                /\ last.ret[i + 1].metadata.file_extension =
                       last.ret[1].metadata.file_extension

\* process_file returned the two chunks of a file.
C30_Witness ==
    /\ last.op = "process_file"
    /\ Len(last.ret) = 2
    /\ last.ret[1].page_content # last.ret[2].page_content


\* The strings initialize_repository returns.
ResultStrings == { LoadedMessage, NoFilesMessage, SuccessMessage, ErrorMessage }

\* C22: initialize_repository never raises to its caller: whatever fails
\* in its load, scan, embedding, save or agent construction, it returns a
\* string.
C22_InitializeNeverRaises ==
    (last.op = "initialize_repository") =>
        /\ last.ret \in ResultStrings
        /\ (last.crash # "none" /\ last.repo # "empty_repo") => last.ret = ErrorMessage

\* A call whose load of a damaged directory raised and that returned the
\* error string.
C22_Witness ==
    /\ last.op = "initialize_repository"
    /\ ~last.force /\ last.predir.exists /\ last.crash = "none" /\ llm_ok
    /\ last.ret = ErrorMessage


\* C24: after any sequence of initialize_repository calls, the manager's
\* vector_store is set only if its agent is set and the agent's store is
\* that same store.
C24_StoreOnlyWithItsAgent ==
    ~mgr.vector_store.is_none =>
        /\ ~mgr.agent.is_none
        /\ mgr.agent.vector_store = mgr.vector_store


\* C25: a complete save onto a directory that held an earlier save
\* replaces all three artifacts: the directory holds the saving store's
\* documents and name, and no index file other than the saving store's
\* index, so that a load cannot pair the new documents with an older index.
C25_SaveReplacesAllArtifacts ==
    (last.op = "save" /\ last.ret = "ok" /\ last.predir.exists) =>
        /\ disk.documents_pkl = [state |-> "ok", documents |-> store.documents]
        /\ disk.model_info_txt = [state |-> "ok", text |-> store.embedding_model_name]
        /\ IF store.faiss_index.is_none
           THEN disk.faiss_index_bin.state = "absent"
           ELSE disk.faiss_index_bin = [state |-> "ok", index |-> store.faiss_index]

\* C28: after create_embeddings or a load that returned True, the docstore
\* holds the ids 0..len(documents)-1, id i holding documents[i].
C28_DocstoreMirrorsDocuments ==
    (last.op = "create_embeddings" \/ (last.op = "load" /\ last.ret = "True")) =>
        /\ store.docstore.counter = Len(store.documents)
        /\ DOMAIN store.docstore.dict = 0..(Len(store.documents) - 1)
        /\ \A i \in DOMAIN store.docstore.dict :
            i < Len(store.documents) => store.docstore.dict[i] = store.documents[i + 1]


\* C26: every vector the local fallback provider's encode returns has the
\* length of the provider's dimension attribute.
C26_FallbackVectorsOfDeclaredDimension ==
    (last.op = "encode" /\ providers[last.instance].kind = "FallbackEmbeddingModel")
    => \A i \in 1..Len(last.vectors) :
          Len(last.vectors[i]) = providers[last.instance].dimension


\* The directory a complete save of st onto an empty path leaves.
DirectoryOf(st) == Save(st, NoDirectory, "none", FALSE).dir

\* C29: with two sessions in initialize_repository at once, once no save
\* is in progress the directory holds the three artifacts of one build
\* and never the index of one build with the documents or the model info
\* of the other.
C29_SavesDoNotInterleave ==
    ((\A s \in Sessions : inflight[s].pc = "idle") /\ disk.exists) =>
        \E s \in Sessions :
            /\ ~inflight[s].vector_store.is_none
            /\ disk = DirectoryOf(inflight[s].vector_store.obj)

=============================================================================
